---- MODULE Spec2Model ----
(***************************************************************************)
(* A model of gns3server/utils/asyncio/embed_shell.py:                     *)
(*   - EmbedShell: help, _parse_command, run                               *)
(*   - UnstoppableEventLoop                                                *)
(*   - ShellConnection: feed, reset                                        *)
(*                                                                         *)
(* Text is a sequence of atoms.  An atom is a piece of a Python string     *)
(* that the code never looks into: a word, or one of the characters the    *)
(* code does look at (" ", "\t", "\n", "?").                               *)
(***************************************************************************)
EXTENDS Naturals, Sequences, FiniteSets

VARIABLES
    \* the shell's welcome message (None is the empty text)
    welcome,
    \* one call of EmbedShell._parse_command
    ptokens, ptext, pwriter, ppc, pinvoked, pres,
    \* one call of EmbedShell.help on a shell, pass by pass of its loop
    hmembers, hargv, hidx, hres, hpc,
    \* EmbedShell.run over a reader and a writer channel
    reader, writer, fed, rpc, rhandler, frames,
    \* the tasks of create_stdin_shell around that run(), and their join
    readerTask, writerTask, joined, printed,
    \* one ShellConnection
    cstate, buffer, retval, closing, pending, events, nfeeds, naccepted, ndispatch, nsent,
    \* the connections of one create_telnet_shell server and the shell they are given
    tprompt, tconns, twrites,
    \* UnstoppableEventLoop over the host scheduler
    hostRunning, hostClosed, hostReaders, cbState, cbAfter, cbRanAfter, nstop, nclose,
    raised, nreaderCalls

helpVars  == <<hmembers, hargv, hidx, hres, hpc>>
parseVars == <<ptokens, ptext, pwriter, ppc, pinvoked, pres, helpVars>>
stdinVars == <<readerTask, writerTask, joined, printed>>
runVars   == <<reader, writer, fed, rpc, rhandler, frames, stdinVars>>
telnetVars == <<tprompt, tconns, twrites>>
connVars  == <<cstate, buffer, retval, closing, pending, events, nfeeds, naccepted,
               ndispatch, nsent, telnetVars>>
loopVars  == <<hostRunning, hostClosed, hostReaders, cbState, cbAfter, cbRanAfter, nstop,
               nclose, raised, nreaderCalls>>
vars      == <<welcome, parseVars, runVars, connVars, loopVars>>

----------------------------------------------------------------------------
(* Bounds *)

MaxTokens == 3      \* tokens of a line handed to _parse_command
MaxLines == 3       \* lines the producer feeds to the run-loop's reader
MaxFeeds == 5       \* feed() calls on one connection
MaxPending == 2     \* feed() coroutines suspended in a handler at once
MaxBuffer == 3      \* atoms in the line editor's buffer
MaxCalls == 2       \* stop() / close() / add_reader() / remove_reader() calls

----------------------------------------------------------------------------
(* Strings *)

SP == " "
TAB == "\t"
NL == "\n"
Whitespace == {SP, TAB, NL}

FirstSpace(s) == CHOOSE i \in 1..Len(s) : s[i] = SP /\ \A j \in 1..(i-1) : s[j] # SP

\* str.split(' '): the pieces between single spaces, empty pieces kept
RECURSIVE Split(_)
Split(s) ==
    IF \A i \in 1..Len(s) : s[i] # SP
    THEN <<s>>
    ELSE <<SubSeq(s, 1, FirstSpace(s) - 1)>> \o Split(SubSeq(s, FirstSpace(s) + 1, Len(s)))

\* sep.join(parts)
RECURSIVE Join(_, _)
Join(parts, sep) ==
    IF Len(parts) = 0 THEN <<>>
    ELSE IF Len(parts) = 1 THEN parts[1]
    ELSE parts[1] \o <<sep>> \o Join(Tail(parts), sep)

\* str.strip(chars): leading and trailing characters of chars removed
RECURSIVE StripChars(_, _)
StripChars(s, chars) ==
    IF Len(s) = 0 THEN s
    ELSE IF s[1] \in chars THEN StripChars(Tail(s), chars)
    ELSE IF s[Len(s)] \in chars THEN StripChars(SubSeq(s, 1, Len(s) - 1), chars)
    ELSE s

\* str.strip()
Strip(s) == StripChars(s, Whitespace)

----------------------------------------------------------------------------
(* The members of the shell, as inspect.getmembers(self) lists them: sorted *)
(* by name.  The shell is the Demo shell: EmbedShell plus the command hello *)

Members == <<
    [name |-> "_parse_command", generator |-> TRUE,  underscore |-> TRUE],
    [name |-> "get_commands",   generator |-> FALSE, underscore |-> FALSE],
    [name |-> "hello",          generator |-> TRUE,  underscore |-> FALSE],
    [name |-> "help",           generator |-> TRUE,  underscore |-> FALSE],
    [name |-> "prompt",         generator |-> FALSE, underscore |-> FALSE],
    [name |-> "run",            generator |-> TRUE,  underscore |-> FALSE] >>

MemberNames == {Members[i].name : i \in 1..Len(Members)}

\* inspect.getdoc(value), as its lines
DocLines(name) ==
    IF name = "help" THEN <<"Show help">>
    ELSE IF name = "hello"
         THEN <<"Hello world", "", "This command accept arguments: hello tutu will display tutu">>
    ELSE <<>>

\* the names the loops of help() and get_commands() keep
IsCommand(m) == m.generator /\ ~m.underscore /\ m.name # "run"

\* EmbedShell.get_commands: the names of the (name, doc) tuples
GetCommands == {Members[i].name : i \in {j \in 1..Len(Members) : IsCommand(Members[j])}}

\* a loop of help() that lists run like any other coroutine
HelpEntry_ListsRun(m, args) ==
    IF ~m.generator THEN <<>>
    ELSE IF m.underscore \/ (Len(args) # 0 /\ <<m.name>> # args[1]) THEN <<>>
    ELSE LET doc == DocLines(m.name)
         IN <<m.name>>
            \o (IF Len(args) # 0 /\ Len(doc) # 0 THEN <<": ">> \o Join([i \in 1..Len(doc) |-> <<doc[i]>>], NL)
                ELSE IF Len(doc) # 0 THEN <<": ", doc[1]>>
                ELSE <<>>)
            \o <<NL>>

\* one pass of the loop of help() over a member
HelpEntry(m, args) ==
    IF ~m.generator THEN <<>>
    ELSE IF m.underscore \/ (Len(args) # 0 /\ <<m.name>> # args[1]) \/ m.name = "run" THEN <<>>
    ELSE LET doc == DocLines(m.name)
         IN <<m.name>>
            \o (IF Len(args) # 0 /\ Len(doc) # 0 THEN <<": ">> \o Join([i \in 1..Len(doc) |-> <<doc[i]>>], NL)
                ELSE IF Len(doc) # 0 THEN <<": ", doc[1]>>
                ELSE <<>>)
            \o <<NL>>

RECURSIVE HelpLoop(_, _)
HelpLoop(i, args) ==
    IF i > Len(Members) THEN <<>>
    ELSE HelpEntry(Members[i], args) \o HelpLoop(i + 1, args)

\* EmbedShell.help(*args)
Help(args) ==
    (IF Len(args) = 0 THEN <<"Help:", NL>> ELSE <<>>)
    \o HelpLoop(1, args)
    \o (IF Len(args) = 0 THEN <<NL, "help command for details about a command", NL>> ELSE <<>>)

\* Demo.hello(*args), the value world() returns after its sleep
Hello(args) == IF Len(args) # 0 THEN Join(args, SP) ELSE <<"world", NL>>

----------------------------------------------------------------------------
(* EmbedShell._parse_command *)

\* What a call (or the part of it up to its first suspension) comes to:
\*   status  "return" (res is the returned string), "suspend" (hello sleeps,
\*           hargv are its arguments), "raise" (an exception propagates),
\*           "runloop" (the call entered run(), which never returns)
\*   invoked the members called at line 122, in order, with their arguments
Outcome(status, res, invoked, hargs) ==
    [status |-> status, res |-> res, invoked |-> invoked, hargs |-> hargs]

\* a bug: the rewrite of '?' left out
Rewrite_Never(cmd) == cmd

\* if cmd[0] == '?': cmd[0] = 'help'
Rewrite(cmd) == IF cmd[1] = <<"?">> THEN <<<<"help">>>> \o Tail(cmd) ELSE cmd

\* a bug: cmd[0] compared with '' without strip()
NoCommand_NoStrip(cmd) == cmd[1] = <<>>

\* not cmd[0].strip()
NoCommand(cmd) == Strip(cmd[1]) = <<>>

\* for (name, meth) in inspect.getmembers(self): if name == cmd[0]
Found(tok) == \E i \in 1..Len(Members) : <<Members[i].name>> = tok

FoundName(tok) == Members[CHOOSE i \in 1..Len(Members) : <<Members[i].name>> = tok].name

\* a bug: the help text left out of the answer
NotFound_NoHelp(tok) == <<"Command not found ">> \o tok \o <<NL>>

\* 'Command not found {}\n'.format(cmd[0]) + (yield from self.help())
NotFound(tok) == <<"Command not found ">> \o tok \o <<NL>> \o Help(<<>>)

\* a bug: the arguments taken as text.split() gives them, empty pieces dropped
NonEmpty(t) == t # <<>>

Arguments_SkipEmpty(cmd) == SelectSeq(Tail(cmd), NonEmpty)

\* the arguments meth is called with: cmd after cmd.pop(0)
Arguments(cmd) == Tail(cmd)

RECURSIVE ParseCommand(_, _)

\* res = yield from meth(*cmd), for the member called name.
\*   help            returns its text without suspending
\*   hello           suspends in asyncio.sleep
\*   prompt          is the string '> ': calling it raises TypeError
\*   get_commands    takes no argument (TypeError) and returns a list of
\*                   tuples, which yield from hands to the task: RuntimeError
\*   run             takes no argument (TypeError); it writes to self._writer
\*                   (AttributeError when the shell has none) and loops
\*   _parse_command  takes exactly one argument (TypeError) and parses it
Invoke(name, args, hasWriter) ==
    LET call == <<[name |-> name, args |-> args]>>
    IN CASE name = "help"  -> Outcome("return", Help(args), call, <<>>)
         [] name = "hello" -> Outcome("suspend", <<>>, call, args)
         [] name = "run"   ->
                IF Len(args) = 0 /\ hasWriter
                THEN Outcome("runloop", <<>>, call, <<>>)
                ELSE Outcome("raise", <<>>, call, <<>>)
         [] name = "_parse_command" ->
                IF Len(args) = 1
                THEN LET o == ParseCommand(args[1], hasWriter)
                     IN Outcome(o.status, o.res, call \o o.invoked, o.hargs)
                ELSE Outcome("raise", <<>>, call, <<>>)
         [] OTHER -> Outcome("raise", <<>>, call, <<>>)

\* _parse_command(text), up to the first suspension of the handler
ParseCommand(text, hasWriter) ==
    LET cmd == Rewrite(Split(text))
    IN IF NoCommand(cmd) THEN Outcome("return", <<>>, <<>>, <<>>)
       ELSE IF Found(cmd[1]) THEN Invoke(FoundName(cmd[1]), Arguments(cmd), hasWriter)
       ELSE Outcome("return", NotFound(cmd[1]), <<>>, <<>>)

----------------------------------------------------------------------------
(* One call of _parse_command on a line: tokens joined by single spaces *)

Tokens == { <<>>, <<TAB>>, <<NL>>, <<"?">>, <<"help">>, <<"hello">>, <<"x">>, <<"y">>,
            <<"nosuchcmd">>, <<"run">>, <<"prompt">>, <<"get_commands">>,
            <<"_parse_command">>, <<"?", "x">>, <<TAB, "help">> }

TokenLists == UNION {[1..n -> Tokens] : n \in 1..MaxTokens}

StatusPc(status) ==
    CASE status = "return"  -> "returned"
      [] status = "suspend" -> "handler"
      [] status = "raise"   -> "raised"
      [] status = "runloop" -> "runloop"

HelpIdle ==
    /\ hmembers = <<>> /\ hargv = <<>> /\ hidx = 0 /\ hres = <<>> /\ hpc = "idle"

ParseIdle ==
    /\ ptokens = <<>> /\ ptext = <<>> /\ pwriter = FALSE /\ ppc = "idle" /\ pinvoked = <<>> /\ pres = <<>>
    /\ HelpIdle

NoJoin == [state |-> "idle", nread |-> 0, printed |-> 0]

StdinIdle ==
    /\ readerTask = "idle" /\ writerTask = "idle" /\ joined = NoJoin /\ printed = 0

RunIdle ==
    /\ reader = <<>> /\ writer = <<>> /\ fed = 0 /\ rpc = "idle"
    /\ rhandler = <<>> /\ frames = <<>>
    /\ StdinIdle

TelnetIdle ==
    /\ tprompt = <<>> /\ tconns = <<>> /\ twrites = {}

ConnIdle ==
    /\ cstate = "idle" /\ buffer = <<>> /\ retval = [kind |-> "idle", text |-> <<>>] /\ closing = 0
    /\ pending = <<>> /\ events = <<>> /\ nfeeds = 0 /\ naccepted = 0 /\ ndispatch = 0
    /\ nsent = 0
    /\ TelnetIdle

LoopIdle ==
    /\ hostRunning = TRUE /\ hostClosed = FALSE /\ hostReaders = {} /\ cbState = <<>>
    /\ cbAfter = <<>> /\ cbRanAfter = <<>> /\ nstop = 0 /\ nclose = 0 /\ raised = "idle" /\ nreaderCalls = 0

InitParse ==
    /\ ptokens \in TokenLists
    /\ ptext = Join(ptokens, SP)
    /\ pwriter \in BOOLEAN
    /\ ppc = "call"
    /\ pinvoked = <<>>
    /\ pres = <<>>
    /\ welcome = <<>>
    /\ HelpIdle /\ RunIdle /\ ConnIdle /\ LoopIdle

\* the call runs until it returns, raises or its handler suspends
ParseCall ==
    /\ ppc = "call"
    /\ LET o == ParseCommand(ptext, pwriter)
       IN /\ ppc' = StatusPc(o.status)
          /\ pinvoked' = o.invoked
          /\ pres' = o.res
    /\ UNCHANGED <<welcome, ptokens, ptext, pwriter, helpVars, runVars, connVars, loopVars>>

\* the sleep of hello ends: world() returns and so does _parse_command
ParseResume ==
    /\ ppc = "handler"
    /\ ppc' = "returned"
    /\ pres' = Hello(pinvoked[Len(pinvoked)].args)
    /\ UNCHANGED <<welcome, ptokens, ptext, pwriter, pinvoked, helpVars, runVars, connVars, loopVars>>

NextParse == ParseCall \/ ParseResume

SpecParse == InitParse /\ [][NextParse]_vars

----------------------------------------------------------------------------
(* EmbedShell.help, pass by pass, on the base shell and on the Demo shell *)

\* the members of a plain EmbedShell: Demo's without its command hello
NotHello(m) == m.name # "hello"

BaseMembers == SelectSeq(Members, NotHello)

Shells == {BaseMembers, Members}

\* EmbedShell.get_commands on a shell: the names of its tuples, in order
RECURSIVE CommandsOf(_)
CommandsOf(members) ==
    IF members = <<>> THEN <<>>
    ELSE (IF IsCommand(Head(members)) THEN <<Head(members).name>> ELSE <<>>)
         \o CommandsOf(Tail(members))

\* the arguments help() is called with
HelpArgs ==
    {<<>>} \cup {<<t>> : t \in Tokens} \cup {<<t, <<"x">>>> : t \in {<<"help">>, <<"x">>}}

HelpHeader == <<"Help:", NL>>

HelpHint == <<NL, "help command for details about a command", NL>>

InitHelp ==
    /\ hmembers \in Shells
    /\ hargv \in HelpArgs
    /\ hidx = 0
    /\ hres = <<>>
    /\ hpc = "call"
    /\ welcome = <<>>
    /\ ptokens = <<>> /\ ptext = <<>> /\ pwriter = FALSE /\ ppc = "idle" /\ pinvoked = <<>> /\ pres = <<>>
    /\ RunIdle /\ ConnIdle /\ LoopIdle

\* res = '' and the header of a call without arguments
HelpBegin ==
    /\ hpc = "call"
    /\ hres' = (IF Len(hargv) = 0 THEN HelpHeader ELSE <<>>)
    /\ hidx' = 1
    /\ hpc' = "loop"
    /\ UNCHANGED <<welcome, hmembers, hargv, ptokens, ptext, pwriter, ppc, pinvoked, pres,
                   runVars, connVars, loopVars>>

\* one pass of the loop over inspect.getmembers(self)
HelpPass ==
    /\ hpc = "loop"
    /\ hidx <= Len(hmembers)
    /\ hres' = hres \o HelpEntry(hmembers[hidx], hargv)
    /\ hidx' = hidx + 1
    /\ UNCHANGED <<welcome, hmembers, hargv, hpc, ptokens, ptext, pwriter, ppc, pinvoked, pres,
                   runVars, connVars, loopVars>>

\* the loop is over: the hint of a call without arguments, and the return
HelpReturn ==
    /\ hpc = "loop"
    /\ hidx > Len(hmembers)
    /\ hres' = hres \o (IF Len(hargv) = 0 THEN HelpHint ELSE <<>>)
    /\ hpc' = "returned"
    /\ UNCHANGED <<welcome, hmembers, hargv, hidx, ptokens, ptext, pwriter, ppc, pinvoked, pres,
                   runVars, connVars, loopVars>>

NextHelp == HelpBegin \/ HelpPass \/ HelpReturn

SpecHelp == InitHelp /\ [][NextHelp]_vars

----------------------------------------------------------------------------
(* EmbedShell.run, wired as create_stdin_shell wires it: a producer feeds   *)
(* newline-terminated lines to the reader, run() writes to the writer.      *)
(*                                                                          *)
(* reader   the bytes fed to the reader channel and not read yet            *)
(* writer   the units run() has fed to the writer channel, in order         *)
(* frames   one record per run() call that has started: the innermost is    *)
(*          the last.  A line "run" makes _parse_command call run() again,  *)
(*          which never returns: the frame below stays in its dispatch.     *)
(*          line: the local result (the last line read); invoked: the       *)
(*          members its dispatch called; nread, nresults: lines read and    *)
(*          results written by this call; inflight: its _parse_command      *)
(*          calls that have neither returned nor raised.                    *)
(* rpc      where the innermost run() is: "start", suspended in "readline", *)
(*          suspended in the "handler", or "aborted" by an exception        *)

Prompt == <<"> ">>

WelcomeMessages == {<<>>, <<"Welcome!", NL>>}

RunLines == { <<>>, <<"hello">>, <<"hello", SP, "x", SP, "y">>, <<"help">>,
              <<"nosuchcmd">>, <<"x", SP, "y">>, <<"?", "x">>, <<SP, "help">>,
              <<"prompt">>, <<"run">> }

Unit(kind, data) == [kind |-> kind, data |-> data]

NewFrame == [line |-> <<>>, invoked |-> <<>>, nread |-> 0, nresults |-> 0, inflight |-> 0]

Top == Len(frames)

\* if self._welcome_message: write it; then the first prompt of the loop
RunPrologue ==
    (IF welcome # <<>> THEN <<Unit("welcome", welcome)>> ELSE <<>>)
    \o <<Unit("prompt", Prompt)>>

\* a bug: the next prompt written before the result
RunEpilogue_PromptFirst(res) == <<Unit("prompt", Prompt), Unit("result", res)>>

\* self._writer.feed_data(res.encode()), then the next prompt
RunEpilogue(res) == <<Unit("result", res), Unit("prompt", Prompt)>>

\* reader.readline(): the bytes up to and including the first newline
HasLine(buf) == \E i \in 1..Len(buf) : buf[i] = NL

FirstNewline(buf) == CHOOSE i \in 1..Len(buf) : buf[i] = NL /\ \A j \in 1..(i-1) : buf[j] # NL

\* a bug: the dispatch started as a task of its own instead of awaited
RunAwait_Detached(status) ==
    CASE status = "return"  -> "readline"
      [] status = "suspend" -> "readline"
      [] status = "raise"   -> "aborted"
      [] status = "runloop" -> "readline"

\* a bug: the exception of a handler caught, the loop going on
RunAwait_Swallowed(status) ==
    CASE status = "return"  -> "readline"
      [] status = "suspend" -> "handler"
      [] status = "raise"   -> "readline"
      [] status = "runloop" -> "readline"

\* where run() is after res = yield from self._parse_command(result)
RunAwait(status) ==
    CASE status = "return"  -> "readline"
      [] status = "suspend" -> "handler"
      [] status = "raise"   -> "aborted"
      [] status = "runloop" -> "readline"

InitRun ==
    /\ welcome \in WelcomeMessages
    /\ reader = <<>>
    /\ writer = <<>>
    /\ fed = 0
    /\ rpc = "start"
    /\ rhandler = <<>>
    /\ frames = <<>>
    /\ StdinIdle
    /\ ParseIdle /\ ConnIdle /\ LoopIdle

\* feed_stdin: line += '\n'; reader.feed_data(line.encode())
FeedStdin(line) ==
    /\ fed < MaxLines
    /\ fed' = fed + 1
    /\ reader' = reader \o line \o <<NL>>
    /\ UNCHANGED <<welcome, writer, rpc, rhandler, frames, stdinVars, parseVars, connVars,
                   loopVars>>

\* run() from its start to its first readline
RunStart ==
    /\ rpc = "start"
    /\ frames' = <<NewFrame>>
    /\ writer' = writer \o RunPrologue
    /\ rpc' = "readline"
    /\ UNCHANGED <<welcome, reader, fed, rhandler, stdinVars, parseVars, connVars, loopVars>>

\* readline returns: the line is stripped of newlines and dispatched; run()
\* goes on until it suspends again
RunReadline ==
    /\ rpc = "readline"
    /\ HasLine(reader)
    /\ LET n    == FirstNewline(reader)
           line == StripChars(SubSeq(reader, 1, n), {NL})
           o    == ParseCommand(line, TRUE)
           f    == [frames[Top] EXCEPT !.line = line, !.invoked = o.invoked,
                                       !.nread = @ + 1, !.inflight = @ + 1]
       IN /\ reader' = SubSeq(reader, n + 1, Len(reader))
          /\ rpc' = RunAwait(o.status)
          /\ rhandler' = o.hargs
          /\ CASE o.status = "return" ->
                    /\ writer' = writer \o RunEpilogue(o.res)
                    /\ frames' = [frames EXCEPT ![Top] =
                                    [f EXCEPT !.nresults = @ + 1, !.inflight = @ - 1]]
               [] o.status = "runloop" ->
                    /\ writer' = writer \o RunPrologue
                    /\ frames' = [frames EXCEPT ![Top] = f] \o <<NewFrame>>
               [] o.status = "suspend" ->
                    /\ writer' = writer
                    /\ frames' = [frames EXCEPT ![Top] = f]
               [] o.status = "raise" ->
                    \* the exception ends every call below it, run() included
                    /\ writer' = writer
                    /\ frames' = [i \in 1..Top |->
                                    [(IF i = Top THEN f ELSE frames[i]) EXCEPT !.inflight = 0]]
    /\ UNCHANGED <<welcome, fed, stdinVars, parseVars, connVars, loopVars>>

\* the sleep of hello ends: _parse_command returns, the result is written
RunResume ==
    /\ rpc = "handler"
    /\ writer' = writer \o RunEpilogue(Hello(rhandler))
    /\ frames' = [frames EXCEPT ![Top] = [@ EXCEPT !.nresults = @ + 1, !.inflight = @ - 1]]
    /\ rpc' = "readline"
    /\ rhandler' = <<>>
    /\ UNCHANGED <<welcome, reader, fed, stdinVars, parseVars, connVars, loopVars>>

NextRun ==
    \/ \E line \in RunLines : FeedStdin(line)
    \/ RunStart
    \/ RunReadline
    \/ RunResume

SpecRun == InitRun /\ [][NextRun]_vars

----------------------------------------------------------------------------
(* create_stdin_shell: run() as shell_task, feed_stdin as reader_task,      *)
(* read_stdout as writer_task, joined by asyncio.gather.                    *)
(*                                                                          *)
(* readerTask, writerTask   "running", "failed" or "cancelled"; the state   *)
(*                          of shell_task is the one of run() (rpc)         *)
(* printed                  the atoms of the writer channel read_stdout has *)
(*                          printed                                        *)
(* joined                   the future gather returns: its state, and how   *)
(*                          far run() and read_stdout were when it was set  *)

\* the lines typed at the prompt of feed_stdin
StdinLines == { <<>>, <<"hello">>, <<"prompt">> }

RECURSIVE Atoms(_)
\* the length of what run() has fed to the writer channel
Atoms(units) == IF units = <<>> THEN 0 ELSE Len(Head(units).data) + Atoms(Tail(units))

NRead == IF frames = <<>> THEN 0 ELSE frames[Top].nread

Tasks ==
    [shell  |-> (CASE rpc = "aborted" -> "failed" [] rpc = "cancelled" -> "cancelled"
                   [] OTHER -> "running"),
     writer |-> writerTask,
     reader |-> readerTask,
     joined |-> joined.state]

SetTasks(t) ==
    /\ rpc' = (IF t.shell = "cancelled" THEN "cancelled" ELSE rpc)
    /\ writerTask' = t.writer
    /\ readerTask' = t.reader
    /\ joined' = (IF t.joined = joined.state THEN joined
                  ELSE [state |-> t.joined, nread |-> NRead, printed |-> printed])

Failed(t) == "failed" \in {t.shell, t.writer, t.reader}

Cancel(status) == IF status = "running" THEN "cancelled" ELSE status

\* a join that cancels the tasks still running when one of them fails
Gather_Supervised(t) ==
    IF t.joined = "pending" /\ Failed(t)
    THEN [shell |-> Cancel(t.shell), writer |-> Cancel(t.writer), reader |-> Cancel(t.reader),
          joined |-> "failed"]
    ELSE t

\* asyncio.gather(shell_task, writer_task, reader_task): the first exception of
\* a task is set on the future; the other tasks are left alone
Gather(t) == IF t.joined = "pending" /\ Failed(t) THEN [t EXCEPT !.joined = "failed"] ELSE t

InitStdin ==
    /\ welcome \in WelcomeMessages
    /\ reader = <<>>
    /\ writer = <<>>
    /\ fed = 0
    /\ rpc = "start"
    /\ rhandler = <<>>
    /\ frames = <<>>
    /\ readerTask = "running"
    /\ writerTask = "running"
    /\ joined = [state |-> "pending", nread |-> 0, printed |-> 0]
    /\ printed = 0
    /\ ParseIdle /\ ConnIdle /\ LoopIdle

\* feed_stdin: prompt() returns a line, which is fed to the reader
ProducerFeed(line) ==
    /\ readerTask = "running"
    /\ FeedStdin(line)

\* feed_stdin: prompt() raises (EOFError at the end of the input)
ProducerFail ==
    /\ readerTask = "running"
    /\ readerTask' = "failed"
    /\ UNCHANGED <<welcome, reader, writer, fed, rpc, rhandler, frames, writerTask, joined,
                   printed, parseVars, connVars, loopVars>>

\* read_stdout: c = yield from writer.read(1); print(c.decode(), end='')
ConsumerRead ==
    /\ writerTask = "running"
    /\ printed < Atoms(writer)
    /\ printed' = printed + 1
    /\ UNCHANGED <<welcome, reader, writer, fed, rpc, rhandler, frames, readerTask, writerTask,
                   joined, parseVars, connVars, loopVars>>

\* read_stdout: print raises (standard output is closed)
ConsumerFail ==
    /\ writerTask = "running"
    /\ writerTask' = "failed"
    /\ UNCHANGED <<welcome, reader, writer, fed, rpc, rhandler, frames, readerTask, joined,
                   printed, parseVars, connVars, loopVars>>

\* the callback gather put on its tasks runs after one of them has ended
GatherDone ==
    /\ Gather(Tasks) # Tasks
    /\ SetTasks(Gather(Tasks))
    /\ UNCHANGED <<welcome, reader, writer, fed, rhandler, frames, printed, parseVars, connVars,
                   loopVars>>

NextStdin ==
    \/ \E line \in StdinLines : ProducerFeed(line)
    \/ ProducerFail
    \/ RunStart
    \/ RunReadline
    \/ RunResume
    \/ ConsumerRead
    \/ ConsumerFail
    \/ GatherDone

SpecStdin == InitStdin /\ [][NextStdin]_vars

----------------------------------------------------------------------------
(* ShellConnection: one telnet connection on the shell.  The shell has no   *)
(* reader and no writer here (create_telnet_shell sets none).               *)
(*                                                                          *)
(* buffer   the text in the line editor's buffer                            *)
(* retval   the line editor's return value: kind "none" while editing       *)
(*          (is_returning is false), "doc" once a line is accepted (text is *)
(*          the line), "eof" or "interrupt" when return_value() raises      *)
(* closing  the close() calls made on the transport                         *)
(* pending  the feed() calls suspended in a handler, oldest first: the      *)
(*          arguments hello was called with                                 *)
(* events   what the last step did, in the order of the code; "redraw" is  *)
(*          self._cli._redraw(), which renders to the transport through     *)
(*          write(); "send" is the send of a command's result (line 264)    *)
(* nfeeds, naccepted, ndispatch  feed() calls, lines the user completed,    *)
(*          _parse_command calls                                            *)

Keys == {"hello", "x", "prompt", SP, "ENTER", "CTRL_D", "CTRL_C"}

FeedData == {<<k>> : k \in Keys} \cup {<<"hello", "ENTER">>, <<"prompt", "ENTER">>}

NoReturn == [kind |-> "none", text |-> <<>>]

\* One key handed to the line editor by self._inputstream.feed(data).  Keys
\* are ignored once the editor is returning; Enter accepts the line, Ctrl-D
\* on an empty buffer ends the input, Ctrl-C interrupts.
FeedKey(st, key) ==
    IF st.retval.kind # "none" THEN st
    ELSE CASE key = "ENTER"  -> [st EXCEPT !.retval = [kind |-> "doc", text |-> st.buffer],
                                           !.accepted = @ + 1]
           [] key = "CTRL_D" -> IF st.buffer = <<>>
                                THEN [st EXCEPT !.retval = [kind |-> "eof", text |-> <<>>]]
                                ELSE st
           [] key = "CTRL_C" -> [st EXCEPT !.retval = [kind |-> "interrupt", text |-> <<>>]]
           [] OTHER          -> [st EXCEPT !.buffer = Append(@, key)]

RECURSIVE FeedKeys(_, _)
FeedKeys(st, data) ==
    IF data = <<>> THEN st ELSE FeedKeys(FeedKey(st, Head(data)), Tail(data))

\* a bug: the buffer of the line editor is not reset
Reset_KeepBuffer(st) ==
    [st EXCEPT !.retval = NoReturn,
               !.events = @ \o <<"cli.reset", "request_absolute_cursor_position", "redraw">>]

\* ShellConnection.reset
Reset(st) ==
    [st EXCEPT !.retval = NoReturn,
               !.buffer = <<>>,
               !.events = @ \o <<"cli.reset", "buffer.reset",
                                 "request_absolute_cursor_position", "redraw">>]

\* self.send(res.encode()); self.reset()
Complete(st) == Reset([st EXCEPT !.events = @ \o <<"returned", "send">>, !.sent = @ + 1])

\* a bug: the exception of return_value() is not caught
ReturnError_Propagates(st) == [st EXCEPT !.events = @ \o <<"raise">>]

\* except (EOFError, KeyboardInterrupt): self.close(); return
ReturnError(st) == [st EXCEPT !.events = @ \o <<"close">>, !.closing = @ + 1]

\* feed() from self._inputstream.feed(data) to its return, its suspension in
\* the handler, or the exception that leaves it
FeedBody(st0, data) ==
    LET st1 == FeedKeys(st0, data)
        st  == [st1 EXCEPT !.events = <<"keys", "redraw">>]
    IN IF st.retval.kind = "none" THEN st
       ELSE IF st.retval.kind \in {"eof", "interrupt"}
            THEN ReturnError([st EXCEPT !.events = @ \o <<"return_value raises">>])
       ELSE LET o  == ParseCommand(st.retval.text, FALSE)
                sd == [st EXCEPT !.events = @ \o <<"return_value", "dispatch">>,
                                 !.dispatched = @ + 1]
            IN CASE o.status = "return"  -> Complete(sd)
                 [] o.status = "suspend" -> [sd EXCEPT !.events = @ \o <<"suspend">>,
                                                       !.pending = Append(@, o.hargs)]
                 [] OTHER                -> [sd EXCEPT !.events = @ \o <<"raise">>]

ConnState ==
    [buffer |-> buffer, retval |-> retval, closing |-> closing, pending |-> pending,
     events |-> events, accepted |-> naccepted, dispatched |-> ndispatch, sent |-> nsent]

SetConnState(st) ==
    /\ buffer' = st.buffer
    /\ retval' = st.retval
    /\ closing' = st.closing
    /\ pending' = st.pending
    /\ events' = st.events
    /\ naccepted' = st.accepted
    /\ ndispatch' = st.dispatched
    /\ nsent' = st.sent

InitConn ==
    /\ welcome \in WelcomeMessages
    /\ cstate = "new"
    /\ buffer = <<>>
    /\ retval = NoReturn
    /\ closing = 0
    /\ pending = <<>>
    /\ events = <<>>
    /\ nfeeds = 0 /\ naccepted = 0 /\ ndispatch = 0 /\ nsent = 0
    /\ TelnetIdle
    /\ ParseIdle /\ RunIdle /\ LoopIdle

\* ShellConnection.connected: the line editor is created, the welcome
\* message is sent when there is one, the prompt is drawn
Connected ==
    /\ cstate = "new"
    /\ cstate' = "active"
    /\ events' = (IF welcome # <<>> THEN <<"send welcome">> ELSE <<>>) \o <<"redraw">>
    /\ UNCHANGED <<welcome, buffer, retval, closing, pending, nfeeds, naccepted, ndispatch,
                   nsent, telnetVars, parseVars, runVars, loopVars>>

\* ShellConnection.feed(data), up to its first suspension
Feed(data) ==
    /\ cstate = "active"
    /\ nfeeds < MaxFeeds
    /\ LET st == FeedBody(ConnState, data)
       IN /\ Len(st.buffer) <= MaxBuffer
          /\ Len(st.pending) <= MaxPending
          /\ SetConnState(st)
    /\ nfeeds' = nfeeds + 1
    /\ UNCHANGED <<welcome, cstate, telnetVars, parseVars, runVars, loopVars>>

\* the sleep of the oldest suspended hello ends: _parse_command returns in
\* that feed(), which sends the result and resets
FeedResume ==
    /\ pending # <<>>
    /\ SetConnState(Complete([ConnState EXCEPT !.pending = Tail(@), !.events = <<>>]))
    /\ UNCHANGED <<welcome, cstate, nfeeds, telnetVars, parseVars, runVars, loopVars>>

NextConn ==
    \/ Connected
    \/ \E data \in FeedData : Feed(data)
    \/ FeedResume

SpecConn == InitConn /\ [][NextConn]_vars

----------------------------------------------------------------------------
(* create_telnet_shell: the connections its factory makes, and the shell    *)
(* object each of them is given.                                            *)
(*                                                                          *)
(* welcome, tprompt   the _welcome_message and _prompt of the shell passed  *)
(*                    to create_telnet_shell                                *)
(* tconns             one record per connection the factory has made:       *)
(*                    shell, the shell object it holds; prompt and          *)
(*                    welcomed, what connected() drew and sent              *)
(* twrites            the values sessions have written on their shell       *)

MaxConns == 2       \* connections the factory makes

\* the shell objects there are: the argument of create_telnet_shell
ShellArg == "shell"

\* the values a session writes through the setters of its shell
PromptsSet == {<<"demo> ">>}

WelcomesSet == {<<"Bye!", NL>>}

InitTelnet ==
    /\ welcome \in WelcomeMessages
    /\ tprompt = Prompt
    /\ tconns = <<>>
    /\ twrites = {}
    /\ cstate = "idle" /\ buffer = <<>> /\ retval = [kind |-> "idle", text |-> <<>>] /\ closing = 0
    /\ pending = <<>> /\ events = <<>> /\ nfeeds = 0 /\ naccepted = 0 /\ ndispatch = 0
    /\ nsent = 0
    /\ ParseIdle /\ RunIdle /\ LoopIdle

connOnly == <<cstate, buffer, retval, closing, pending, events, nfeeds, naccepted, ndispatch,
              nsent>>

\* factory(reader, writer): ShellConnection(reader, writer, shell, loop)
Factory ==
    /\ Len(tconns) < MaxConns
    /\ tconns' = Append(tconns, [shell |-> ShellArg, state |-> "new",
                                 prompt |-> <<>>, welcomed |-> <<>>])
    /\ UNCHANGED <<welcome, tprompt, twrites, connOnly, parseVars, runVars, loopVars>>

\* connected() of connection i: the prompt application is made from
\* self._shell.prompt, the welcome message of self._shell is sent
TelnetConnected(i) ==
    /\ tconns[i].state = "new"
    /\ tconns' = [tconns EXCEPT ![i] = [@ EXCEPT !.state = "active", !.prompt = tprompt,
                                                 !.welcomed = welcome]]
    /\ UNCHANGED <<welcome, tprompt, twrites, connOnly, parseVars, runVars, loopVars>>

\* a handler dispatched by connection i sets self.prompt
SetPrompt(i, val) ==
    /\ tconns[i].state = "active"
    /\ tconns[i].shell = ShellArg
    /\ tprompt' = val
    /\ twrites' = twrites \cup {[by |-> i, val |-> val]}
    /\ UNCHANGED <<welcome, tconns, connOnly, parseVars, runVars, loopVars>>

\* a handler dispatched by connection i sets self.welcome_message
SetWelcome(i, val) ==
    /\ tconns[i].state = "active"
    /\ tconns[i].shell = ShellArg
    /\ welcome' = val
    /\ twrites' = twrites \cup {[by |-> i, val |-> val]}
    /\ UNCHANGED <<tprompt, tconns, connOnly, parseVars, runVars, loopVars>>

NextTelnet ==
    \/ Factory
    \/ \E i \in 1..Len(tconns) : TelnetConnected(i)
    \/ \E i \in 1..Len(tconns) : \E val \in PromptsSet : SetPrompt(i, val)
    \/ \E i \in 1..Len(tconns) : \E val \in WelcomesSet : SetWelcome(i, val)

SpecTelnet == InitTelnet /\ [][NextTelnet]_vars

----------------------------------------------------------------------------
(* UnstoppableEventLoop over the host scheduler self._loop.                 *)
(*                                                                          *)
(* hostRunning, hostClosed  the host scheduler runs; it has been closed     *)
(* hostReaders  the descriptors registered for reading on the host          *)
(* cbState      per callback: "none", submitted and waiting ("callback" by  *)
(*              call_from_executor, "task" by run_in_executor), or "done"   *)
(* cbAfter      whether it was submitted after a stop() or close()          *)
(* cbRanAfter   whether it ran after a stop() or close()                    *)
(* raised       what the last call on the guard raised                      *)

Callbacks == {"cb1", "cb2"}

Descriptors == {"fd0", "fd5"}

Host == [running |-> hostRunning, closed |-> hostClosed, readers |-> hostReaders]

SetHost(h) ==
    /\ hostRunning' = h.running
    /\ hostClosed' = h.closed
    /\ hostReaders' = h.readers

\* a bug: stop() handed on to the host scheduler
GuardStop_Forwarded(h) == [h EXCEPT !.running = FALSE]

\* UnstoppableEventLoop.stop: " Ignore. "
GuardStop(h) == h

\* a bug: close() handed on to the host scheduler
GuardClose_Forwarded(h) == [h EXCEPT !.running = FALSE, !.closed = TRUE]

\* UnstoppableEventLoop.close: " Ignore. "
GuardClose(h) == h

\* a bug: add_reader() handed on to the host scheduler before failing
GuardAddReader_Forwarded(h, fd) == [h EXCEPT !.readers = @ \cup {fd}]

\* UnstoppableEventLoop.add_reader: raise NotImplementedError
GuardAddReader(h, fd) == h

\* UnstoppableEventLoop.remove_reader: raise NotImplementedError
GuardRemoveReader(h, fd) == h

StoppedBefore == nstop + nclose > 0

InitLoop ==
    /\ hostRunning = TRUE
    /\ hostClosed = FALSE
    /\ hostReaders \in SUBSET Descriptors
    /\ cbState = [c \in Callbacks |-> "none"]
    /\ cbAfter = [c \in Callbacks |-> FALSE]
    /\ cbRanAfter = [c \in Callbacks |-> FALSE]
    /\ nstop = 0 /\ nclose = 0
    /\ raised = "none"
    /\ nreaderCalls = 0
    /\ welcome = <<>>
    /\ ParseIdle /\ RunIdle /\ ConnIdle

Stop ==
    /\ nstop + nclose < MaxCalls
    /\ nstop' = nstop + 1
    /\ SetHost(GuardStop(Host))
    /\ raised' = "none"
    /\ UNCHANGED <<welcome, cbState, cbAfter, cbRanAfter, nclose, nreaderCalls,
                   parseVars, runVars, connVars>>

Close ==
    /\ nstop + nclose < MaxCalls
    /\ nclose' = nclose + 1
    /\ SetHost(GuardClose(Host))
    /\ raised' = "none"
    /\ UNCHANGED <<welcome, cbState, cbAfter, cbRanAfter, nstop, nreaderCalls,
                   parseVars, runVars, connVars>>

\* what the host scheduler does with a submission: it takes it unless closed
Submit(c, kind) ==
    /\ cbState[c] = "none"
    /\ IF hostClosed
       THEN /\ raised' = "RuntimeError"
            /\ UNCHANGED <<cbState, cbAfter>>
       ELSE /\ raised' = "none"
            /\ cbState' = [cbState EXCEPT ![c] = kind]
            /\ cbAfter' = [cbAfter EXCEPT ![c] = StoppedBefore]
    /\ UNCHANGED <<welcome, hostRunning, hostClosed, hostReaders, cbRanAfter, nstop, nclose,
                   nreaderCalls, parseVars, runVars, connVars>>

\* self._loop.call_from_executor(callback, **kwargs)
CallFromExecutor(c) == Submit(c, "callback")

\* return self._loop.run_in_executor(*args, **kwargs)
RunInExecutor(c) == Submit(c, "task")

\* the host scheduler, while it runs, runs what was submitted to it
HostRun(c) ==
    /\ hostRunning /\ ~hostClosed
    /\ cbState[c] \in {"callback", "task"}
    /\ cbState' = [cbState EXCEPT ![c] = "done"]
    /\ cbRanAfter' = [cbRanAfter EXCEPT ![c] = StoppedBefore]
    /\ UNCHANGED <<welcome, hostRunning, hostClosed, hostReaders, cbAfter, nstop, nclose,
                   raised, nreaderCalls, parseVars, runVars, connVars>>

AddReader(fd) ==
    /\ nreaderCalls < MaxCalls
    /\ nreaderCalls' = nreaderCalls + 1
    /\ SetHost(GuardAddReader(Host, fd))
    /\ raised' = "NotImplementedError"
    /\ UNCHANGED <<welcome, cbState, cbAfter, cbRanAfter, nstop, nclose,
                   parseVars, runVars, connVars>>

RemoveReader(fd) ==
    /\ nreaderCalls < MaxCalls
    /\ nreaderCalls' = nreaderCalls + 1
    /\ SetHost(GuardRemoveReader(Host, fd))
    /\ raised' = "NotImplementedError"
    /\ UNCHANGED <<welcome, cbState, cbAfter, cbRanAfter, nstop, nclose,
                   parseVars, runVars, connVars>>

NextLoop ==
    \/ Stop
    \/ Close
    \/ \E c \in Callbacks : CallFromExecutor(c)
    \/ \E c \in Callbacks : RunInExecutor(c)
    \/ \E c \in Callbacks : HostRun(c)
    \/ \E fd \in Descriptors : AddReader(fd)
    \/ \E fd \in Descriptors : RemoveReader(fd)

SpecLoop == InitLoop /\ [][NextLoop]_vars

\* the host scheduler runs forever (loop.run_forever) and runs every callback
\* and task it was given
FairSpecLoop == SpecLoop /\ \A c \in Callbacks : WF_vars(HostRun(c))

----------------------------------------------------------------------------
(* Claims about _parse_command *)

\* C3: a line made of a registered command name c and arguments, joined by
\* single spaces, invokes c's handler exactly once, with exactly those
\* arguments in order, and returns exactly what the handler returned:
\* hello -> "world\n", hello x y -> "x y".
C3_DispatchRegistered ==
    \A c \in GetCommands :
        (ppc # "call" /\ ptokens[1] = <<c>>) =>
            /\ pinvoked = <<[name |-> c, args |-> Tail(ptokens)]>>
            /\ ppc \in {"handler", "returned"}
            /\ (ppc = "returned" /\ c = "hello" /\ Len(ptokens) = 1) => pres = <<"world", NL>>
            /\ (ppc = "returned" /\ c = "hello" /\ Len(ptokens) > 1) => pres = Join(Tail(ptokens), SP)
            /\ (ppc = "returned" /\ c = "help") => pres = Help(Tail(ptokens))

C3_Witness ==
    /\ ppc = "returned"
    /\ ptokens = << <<"hello">>, <<"x">>, <<"y">> >>
    /\ pinvoked = <<[name |-> "hello", args |-> << <<"x">>, <<"y">> >>]>>
    /\ pres = <<"x", SP, "y">>

\* C5: a line of whitespace only (the empty line included) returns the empty
\* string, invokes no handler and raises nothing.
C5_BlankLine ==
    (ppc # "call" /\ \A i \in 1..Len(ptext) : ptext[i] \in Whitespace) =>
        /\ ppc = "returned"
        /\ pres = <<>>
        /\ pinvoked = <<>>

C5_Witness ==
    /\ ppc = "returned"
    /\ ptext = <<TAB, SP, NL>>
    /\ pres = <<>>

\* C6: "?" followed by an argument tail does what "help" followed by the same
\* tail does: help is invoked once with the tail as its arguments and its
\* text is the result.  Only a first token that is exactly "?" is rewritten:
\* "?x" is looked up as it stands, and a "?" among the arguments stays "?".
C6_QuestionMarkIsHelp ==
    /\ (ppc # "call" /\ ptokens[1] = <<"?">>) =>
          LET o == ParseCommand(Join(<< <<"help">> >> \o Tail(ptokens), SP), pwriter)
          IN /\ ppc = "returned" /\ o.status = "return"
             /\ pinvoked = o.invoked
             /\ pinvoked = <<[name |-> "help", args |-> Tail(ptokens)]>>
             /\ pres = o.res
             /\ pres = Help(Tail(ptokens))
    /\ (ppc # "call" /\ ptokens[1] = <<"?", "x">>) =>
          /\ pinvoked = <<>>
          /\ pres = <<"Command not found ", "?", "x", NL>> \o Help(<<>>)
    /\ (ppc # "call" /\ ptokens[1] = <<"help">>) =>
          pinvoked = <<[name |-> "help", args |-> Tail(ptokens)]>>

C6_Witness ==
    /\ ppc = "returned"
    /\ ptokens = << <<"?">>, <<"hello">> >>
    /\ pinvoked = <<[name |-> "help", args |-> << <<"hello">> >>]>>
    /\ pres = <<"hello", ": ", "Hello world", NL, "", NL,
                "This command accept arguments: hello tutu will display tutu", NL>>

----------------------------------------------------------------------------
(* Claims about run() *)

UnknownFirst(line) ==
    LET t == Split(line)[1]
    IN t # <<"?">> /\ Strip(t) # <<>> /\ \A n \in MemberNames : t # <<n>>

\* C1: within one run() call at most one _parse_command call is in flight,
\* the call has read at most one line more than it has written results, and
\* it waits in readline only when every line it read has had its result
\* written; a run() that is below a nested run() stays in its one dispatch.
C1_RunSequential ==
    \A i \in 1..Len(frames) :
        /\ frames[i].inflight <= 1
        /\ frames[i].nresults <= frames[i].nread
        /\ frames[i].nread <= frames[i].nresults + 1
        /\ (rpc # "aborted") => frames[i].nread = frames[i].nresults + frames[i].inflight
        /\ (i = Top /\ rpc = "readline") => frames[i].inflight = 0
        /\ (i = Top /\ rpc = "handler") => frames[i].inflight = 1
        /\ (i < Top /\ rpc # "aborted") => frames[i].inflight = 1

\* the handler of line 1 is suspended while line 2 waits in the reader
C1_Witness ==
    /\ rpc = "handler"
    /\ HasLine(reader)
    /\ frames[Top].nread = 1
    /\ frames[Top].nresults = 0

\* C4: a line whose first token is not blank, not "?" and names no member of
\* the shell is answered with "Command not found <token>\n" followed by the
\* zero-argument help text; no member is invoked, nothing is raised, and
\* run() has written that text and the next prompt and waits for a line.
C4_UnknownCommand ==
    (frames # <<>> /\ frames[Top].nread > 0 /\ UnknownFirst(frames[Top].line)) =>
        /\ rpc = "readline"
        /\ frames[Top].invoked = <<>>
        /\ frames[Top].nresults = frames[Top].nread
        /\ Len(writer) >= 2
        /\ writer[Len(writer) - 1] =
              Unit("result", <<"Command not found ">> \o Split(frames[Top].line)[1]
                             \o <<NL>> \o Help(<<>>))
        /\ writer[Len(writer)] = Unit("prompt", Prompt)

C4_Witness ==
    /\ rpc = "readline"
    /\ frames # <<>>
    /\ frames[Top].line = <<"nosuchcmd">>
    /\ frames[Top].nread = 2
    /\ writer[Len(writer) - 1] =
          Unit("result", <<"Command not found ", "nosuchcmd", NL, "Help:", NL,
                           "hello", ": ", "Hello world", NL,
                           "help", ": ", "Show help", NL,
                           NL, "help command for details about a command", NL>>)

----------------------------------------------------------------------------
(* Claims about ShellConnection *)

\* C2: one connection has at most one command execution in flight: no line
\* is dispatched while an earlier dispatch has not completed, sent its
\* result and reset.
C2_OneInFlight == Len(pending) <= 1

C8_SendThenReset ==
    /\ \A i \in 1..Len(events) :
          events[i] = "returned" =>
             /\ SubSeq(events, i, Len(events)) =
                   <<"returned", "send", "cli.reset", "buffer.reset",
                     "request_absolute_cursor_position", "redraw">>
             /\ (i > 1) => events[i - 1] = "dispatch"
             /\ buffer = <<>>
             /\ retval = NoReturn
    /\ \A i \in 1..Len(events) :
          events[i] = "send" => (i > 1 /\ events[i - 1] = "returned")
    /\ nsent <= ndispatch

\* the dispatch of "hello x" completes after its sleep
C8_Witness ==
    /\ events # <<>>
    /\ events[1] = "returned"
    /\ events[Len(events)] = "redraw"
    /\ ndispatch = 1
    /\ nsent = 1
    /\ nfeeds = 4
    /\ buffer = <<>>
    /\ retval = NoReturn

----------------------------------------------------------------------------
(* Claims about UnstoppableEventLoop *)

\* C9: whatever stop() and close() calls are made on the guard, the host
\* scheduler keeps running and is not closed, no submission is refused, and
\* every callback or task submitted through the guard, before or after those
\* calls, eventually runs.
C9_StopCloseIgnored ==
    /\ [](hostRunning /\ ~hostClosed /\ raised # "RuntimeError")
    /\ \A c \in Callbacks : (cbState[c] \in {"callback", "task"}) ~> (cbState[c] = "done")

\* one submitted before any stop()/close() that ran after them, one submitted
\* after them that ran too
C9_Witness ==
    /\ nstop > 0 /\ nclose > 0
    /\ \E c, d \in Callbacks :
          /\ cbState[c] = "done" /\ ~cbAfter[c] /\ cbRanAfter[c]
          /\ cbState[d] = "done" /\ cbAfter[d]

\* C10: every add_reader() and remove_reader() call raises
\* NotImplementedError and leaves the host scheduler as it was: nothing is
\* registered, nothing unregistered, nothing else changed.
C10_ReadersUnsupported ==
    [][nreaderCalls' # nreaderCalls =>
          /\ raised' = "NotImplementedError"
          /\ hostReaders' = hostReaders
          /\ hostRunning' = hostRunning
          /\ hostClosed' = hostClosed
          /\ cbState' = cbState]_vars

\* two calls made on a host that has a descriptor registered
C10_Witness ==
    /\ nreaderCalls = 2
    /\ raised = "NotImplementedError"
    /\ hostReaders = {"fd5"}

----------------------------------------------------------------------------
(* Further claims about _parse_command *)

\* C15: _parse_command invokes something only when the first token is a name
\* get_commands() lists; for any other first token (run, an underscore
\* member, an attribute such as prompt or get_commands) nothing is invoked,
\* nothing is raised and the answer is the "Command not found" text followed
\* by the zero-argument help.
C15_OnlyCommandsDispatch ==
    LET t == Rewrite(ptokens)[1]
    IN (ppc # "call" /\ Strip(t) # <<>> /\ \A c \in GetCommands : t # <<c>>) =>
          /\ pinvoked = <<>>
          /\ ppc = "returned"
          /\ pres = <<"Command not found ">> \o t \o <<NL>> \o Help(<<>>)

\* C20: a line whose trimmed content is not empty is never answered with the
\* empty no-op result: a member is invoked or the answer is the "Command not
\* found" text for the first token of the single-space split.
C20_OnlyBlankIsNoOp ==
    (ppc # "call" /\ Strip(ptext) # <<>>) =>
        \/ pinvoked # <<>>
        \/ /\ ppc = "returned"
           /\ pres = <<"Command not found ">> \o ptokens[1] \o <<NL>> \o Help(<<>>)

----------------------------------------------------------------------------
(* Further claims about ShellConnection *)

\* C17: once feed() has closed the transport, no later feed() dispatches a
\* command, sends a result or calls close() again: close() is called at most
\* once and nothing is dispatched or sent by a step made after it.
C17_ClosedIsAbsorbing ==
    /\ closing <= 1
    /\ (closing >= 1) => \A i \in 1..Len(events) : events[i] \notin {"dispatch", "send"}

\* C19: the _parse_command calls of a connection never outnumber the lines
\* its user completed.
C19_DispatchedAtMostOnce == ndispatch <= naccepted

----------------------------------------------------------------------------
(* Claims about help *)

\* the line of the listing for one command: its name and the first line of its doc
ShortLine(name) ==
    <<name>> \o (IF DocLines(name) # <<>> THEN <<": ", DocLines(name)[1]>> ELSE <<>>) \o <<NL>>

RECURSIVE Listing(_)
Listing(names) ==
    IF names = <<>> THEN <<>> ELSE ShortLine(Head(names)) \o Listing(Tail(names))

\* the text of help() without arguments on a shell
ZeroArgHelp(members) == HelpHeader \o Listing(CommandsOf(members)) \o HelpHint

\* C11: help() without arguments returns the header line, then one line per name of
\* get_commands(), each once and in order, with the first line of its documentation,
\* never run or an underscore-prefixed member, then the hint (which the code writes
\* after an empty line); on a shell without extra commands that is the header, the
\* line of help itself and the hint.
C11_ZeroArgHelp ==
    (hpc = "returned" /\ hargv = <<>>) =>
        LET names == CommandsOf(hmembers)
        IN /\ hres = ZeroArgHelp(hmembers)
           /\ \A i, j \in 1..Len(names) : names[i] = names[j] => i = j
           /\ \A k \in 1..Len(hres) : hres[k] \notin {"run", "_parse_command"}
           /\ hmembers = BaseMembers =>
                 hres = <<"Help:", NL, "help", ": ", "Show help", NL,
                          NL, "help command for details about a command", NL>>

C11_Witness ==
    /\ hpc = "returned" /\ hargv = <<>> /\ hmembers = Members
    /\ hres = <<"Help:", NL, "hello", ": ", "Hello world", NL, "help", ": ", "Show help", NL,
                NL, "help command for details about a command", NL>>

\* C12: help(x) with one argument that names no command returns the text of help()
\* without arguments; with an argument that names a command it returns that command's
\* full documentation only.
C12_UnmatchedIsZeroArg ==
    (hpc = "returned" /\ Len(hargv) = 1) =>
        LET names == CommandsOf(hmembers)
            doc == DocLines(hargv[1][1])
        IN IF \E i \in 1..Len(names) : <<names[i]>> = hargv[1]
           THEN hres = hargv[1] \o <<": ">> \o Join([i \in 1..Len(doc) |-> <<doc[i]>>], NL) \o <<NL>>
           ELSE hres = ZeroArgHelp(hmembers)

----------------------------------------------------------------------------
(* Further claims about run *)

IsWelcomeUnit(u) == u.kind = "welcome"

IsPromptUnit(u) == u.kind = "prompt"

IsResultUnit(u) == u.kind = "result"

RECURSIVE SumResults(_)
SumResults(fs) == IF fs = <<>> THEN 0 ELSE Head(fs).nresults + SumResults(Tail(fs))

\* C16: every run() call writes the welcome message once when one is set and never
\* otherwise, before its first prompt; after that it writes one prompt before each
\* line it reads and the result of the line before the next prompt: it has written
\* one prompt more than results, every result stands between two prompts, and the
\* last thing written is a prompt.
C16_WelcomeThenAlternate ==
    (frames # <<>>) =>
        /\ Len(SelectSeq(writer, IsWelcomeUnit)) = (IF welcome # <<>> THEN Len(frames) ELSE 0)
        /\ (writer[1].kind = "welcome") <=> (welcome # <<>>)
        /\ \A k \in 1..Len(writer) :
              /\ writer[k].kind = "welcome" =>
                    /\ writer[k].data = welcome
                    /\ k < Len(writer) /\ writer[k + 1].kind = "prompt"
                    /\ k > 1 => writer[k - 1].kind = "prompt"
              /\ writer[k].kind = "result" =>
                    /\ k > 1 /\ writer[k - 1].kind = "prompt"
                    /\ k < Len(writer) /\ writer[k + 1].kind = "prompt"
        /\ writer[Len(writer)].kind = "prompt"
        /\ Len(SelectSeq(writer, IsResultUnit)) = SumResults(frames)
        /\ Len(SelectSeq(writer, IsPromptUnit)) = SumResults(frames) + Len(frames)
        /\ \A i \in 1..Len(frames) :
              /\ frames[i].nresults <= frames[i].nread
              /\ frames[i].nread <= frames[i].nresults + 1
        /\ (Len(frames) = 1 /\ rpc = "readline") => frames[1].nread = frames[1].nresults

\* one run() call with a welcome message, two lines read and answered
C16_Witness ==
    /\ welcome # <<>>
    /\ Len(frames) = 1
    /\ frames[1].nread = 2
    /\ Len(writer) = 6
    /\ [k \in 1..6 |-> writer[k].kind] =
          <<"welcome", "prompt", "result", "prompt", "result", "prompt">>

----------------------------------------------------------------------------
(* Claims about create_telnet_shell *)

\* C13: telnet sessions share no mutable state: two connections never hold the same
\* shell object, and what a connection draws and sends when it connects (the prompt,
\* the welcome message) is never a value another session wrote on its shell.
C13_SessionsIsolated ==
    /\ \A i, j \in 1..Len(tconns) : i # j => tconns[i].shell # tconns[j].shell
    /\ \A j \in 1..Len(tconns) : \A w \in twrites :
          (tconns[j].state = "active" /\ w.by # j) =>
              /\ tconns[j].prompt # w.val
              /\ tconns[j].welcomed # w.val

----------------------------------------------------------------------------
(* Claims about create_stdin_shell *)

\* C14: the three tasks of create_stdin_shell run side by side under one join; when
\* one of them fails the join reports the failure and no other task is cancelled:
\* every task is running or has failed by itself, and the join has failed only when
\* a task has.
C14_JoinCancelsNothing ==
    /\ Tasks.shell \in {"running", "failed"}
    /\ Tasks.writer \in {"running", "failed"}
    /\ Tasks.reader \in {"running", "failed"}
    /\ joined.state \in {"pending", "failed"}
    /\ joined.state = "failed" => Failed(Tasks)
    /\ printed <= Atoms(writer)

\* feed_stdin failed and the join reported it; after that run() read a line and
\* read_stdout printed what run() answered
C14_Witness ==
    /\ joined.state = "failed"
    /\ readerTask = "failed"
    /\ rpc = "readline"
    /\ writerTask = "running"
    /\ NRead > joined.nread
    /\ printed > joined.printed
    /\ printed = Atoms(writer)

====
